---- MODULE Spec2Model ----
(***************************************************************************)
(* Model of lambda_function.py: the project-creation Lambda handler, its   *)
(* validators, the health scorer and its two DynamoDB calls.               *)
(*                                                                         *)
(* Encoding of Python values                                               *)
(*   - an optional value (a dict key that may be absent, a local that may  *)
(*     be None) is a sequence of length 0 or 1: <<>> or <<v>>;             *)
(*   - a dict over a fixed set of recognised keys is a record whose fields *)
(*     are such optional values, so dict.get(k, d) is Get(dict, k, d) and  *)
(*     "k in dict" is Has(dict, k);                                        *)
(*   - a URL string is a sequence of one-character strings, so that        *)
(*     urlparse is computed on the characters;                             *)
(*   - a raised exception is a record [type, text], str(e) is its text.    *)
(***************************************************************************)
EXTENDS Integers, Sequences, FiniteSets, TLC

VARIABLES
    table,        \* the DynamoDB table: primary key -> item
    pc,           \* per invocation: "idle", "check", "create", "done"
    event,        \* per invocation: the event passed to lambda_handler
    query,        \* per invocation: outcome of table.query in check_duplicate_project
    put,          \* per invocation: outcome of table.put_item in create_project
    status,       \* per invocation: status_code argument of the create_response call
    result,       \* per invocation: the value lambda_handler returned
    invocations,  \* number of invocations started so far
    scraped,      \* scorer harness: the record given to calculate_health_score
    score         \* scorer harness: the value it returned

vars == <<table, pc, event, query, put, status, result, invocations, scraped, score>>

handlerVars == <<table, pc, event, query, put, status, result, invocations>>

(***************************************************************************)
(* Bounds of the model.                                                    *)
(***************************************************************************)
MaxConcurrent == 2     \* execution environments running lambda_handler

Slots == 1..MaxConcurrent

(***************************************************************************)
(* Python helpers.                                                         *)
(***************************************************************************)
None == <<>>

Some(v) == <<v>>

\* dict.get(k, default)
Get(d, k, default) == IF d[k] = None THEN default ELSE d[k][1]

\* k in dict
Has(d, k) == d[k] # None

\* bool(dict): a dict is truthy iff it has at least one key
DictTruthy(d) == \E k \in DOMAIN d : Has(d, k)

\* bool(s) of an optional string held as text ("" is falsy, None is falsy)
TextTruthy(o) == o # None /\ o[1] # ""

\* bool(s) of an optional string held as characters
CharsTruthy(o) == o # None /\ o[1] # <<>>

Min(a, b) == IF a <= b THEN a ELSE b

(***************************************************************************)
(* urlparse, as far as validate_url reads it: scheme and netloc.           *)
(* The alphabet has lower-case letters only and no whitespace, control     *)
(* characters or brackets, so lstrip, lower() and the IPv6 check of        *)
(* urlsplit do nothing on these inputs.                                    *)
(***************************************************************************)
Alpha == {"a", "b", "h"}

scheme_chars == Alpha \cup {"1", "+", "-", "."}

\* str.find(c, start) on 1-based positions; 0 when c does not occur
Find(s, c, start) ==
    IF \E j \in start..Len(s) : s[j] = c
    THEN CHOOSE j \in start..Len(s) :
             s[j] = c /\ \A m \in start..(j - 1) : s[m] # c
    ELSE 0

urlparse(url) ==
    LET i == Find(url, ":", 1)
        hasScheme == /\ i > 1
                     /\ url[1] \in Alpha
                     /\ \A j \in 1..(i - 1) : url[j] \in scheme_chars
        scheme == IF hasScheme THEN SubSeq(url, 1, i - 1) ELSE <<>>
        rest == IF hasScheme THEN SubSeq(url, i + 1, Len(url)) ELSE url
        hasNetloc == Len(rest) >= 2 /\ rest[1] = "/" /\ rest[2] = "/"
        found == {Find(rest, c, 3) : c \in {"/", "?", "#"}} \ {0}
        delim == IF found = {} THEN Len(rest) + 1
                 ELSE CHOOSE p \in found : \A q \in found : p <= q
        netloc == IF hasNetloc THEN SubSeq(rest, 3, delim - 1) ELSE <<>>
    IN  [scheme |-> scheme, netloc |-> netloc]

validate_url(url) ==
    LET parsed == urlparse(url)
    IN  parsed.scheme # <<>> /\ parsed.netloc # <<>>

(***************************************************************************)
(* Scraped data.                                                           *)
(***************************************************************************)
required_fields == {"url", "title", "content"}

NoFrameworks == [react |-> None, vue |-> None, angular |-> None]

EmptyScraped ==
    [url |-> None, title |-> None, content |-> None, status_code |-> None,
     content_length |-> None, description |-> None, links_count |-> None,
     has_ssl |-> None, framework_detection |-> None]

\* faulty variant: any() where the code has all()
validate_scraped_data_any(data) == \E field \in required_fields : Has(data, field)

validate_scraped_data(data) == \A field \in required_fields : Has(data, field)

\* faulty variant: the content_length tiers compare with >= where the code has >
calculate_health_score_ge(scraped_data) ==
    LET basic == IF Get(scraped_data, "status_code", 0) = 200 THEN 20 ELSE 0
        content_length == Get(scraped_data, "content_length", 0)
        quality == IF content_length >= 1000 THEN 20
                   ELSE IF content_length >= 500 THEN 10 ELSE 0
        title == IF TextTruthy(scraped_data.title) THEN 15 ELSE 0
        description == IF TextTruthy(scraped_data.description) THEN 10 ELSE 0
        links_count == Get(scraped_data, "links_count", 0)
        links == IF links_count > 10 THEN 15
                 ELSE IF links_count > 5 THEN 10 ELSE 0
        ssl == IF Get(scraped_data, "has_ssl", FALSE) THEN 10 ELSE 0
        framework_data == Get(scraped_data, "framework_detection", NoFrameworks)
        framework == IF \E fw \in {"react", "vue", "angular"} :
                            Get(framework_data, fw, FALSE)
                     THEN 10 ELSE 0
    IN  Min(basic + quality + title + description + links + ssl + framework, 100)

calculate_health_score(scraped_data) ==
    LET basic == IF Get(scraped_data, "status_code", 0) = 200 THEN 20 ELSE 0
        content_length == Get(scraped_data, "content_length", 0)
        quality == IF content_length > 1000 THEN 20
                   ELSE IF content_length > 500 THEN 10 ELSE 0
        title == IF TextTruthy(scraped_data.title) THEN 15 ELSE 0
        description == IF TextTruthy(scraped_data.description) THEN 10 ELSE 0
        links_count == Get(scraped_data, "links_count", 0)
        links == IF links_count > 10 THEN 15
                 ELSE IF links_count > 5 THEN 10 ELSE 0
        ssl == IF Get(scraped_data, "has_ssl", FALSE) THEN 10 ELSE 0
        framework_data == Get(scraped_data, "framework_detection", NoFrameworks)
        framework == IF \E fw \in {"react", "vue", "angular"} :
                            Get(framework_data, fw, FALSE)
                     THEN 10 ELSE 0
    IN  Min(basic + quality + title + description + links + ssl + framework, 100)

(***************************************************************************)
(* Events.  An event is a dict or another JSON value (a list stands for    *)
(* every non-dict).  A dict event either carries the key 'body' (body is   *)
(* Some(...)) or holds the payload keys itself (fields).  The value of     *)
(* 'body' is Python None, a string that is no JSON text, or the JSON text  *)
(* of a value.                                                             *)
(***************************************************************************)
NoPayload ==
    [websiteUrl |-> None, category |-> None, description |-> None,
     scrapedData |-> None, userId |-> None]

ListValue == [type |-> "list", fields |-> NoPayload]

DictValue(payload) == [type |-> "dict", fields |-> payload]

\* json.dumps(v): the JSON text of v
json_dumps(v) == [kind |-> "str_json", value |-> v]

NoneBody == [kind |-> "NoneType", value |-> ListValue]

InvalidJsonBody == [kind |-> "str_invalid", value |-> ListValue]

NoExc == [type |-> "", text |-> ""]

Returned(v) == [ok |-> TRUE, value |-> v, exc |-> NoExc]

Raised(type, text) ==
    [ok |-> FALSE, value |-> ListValue, exc |-> [type |-> type, text |-> text]]

\* json.loads(s): TypeError unless s is a string, JSONDecodeError unless the
\* string is a JSON text, else the decoded value
json_loads(s) ==
    IF s.kind = "NoneType"
    THEN Raised("TypeError",
                "the JSON object must be str, bytes or bytearray, not NoneType")
    ELSE IF s.kind = "str_invalid"
    THEN Raised("JSONDecodeError", "Expecting value: line 1 column 1 (char 0)")
    ELSE Returned(s.value)

DirectEvent(payload) == [type |-> "dict", body |-> None, fields |-> payload]

GatewayEvent(b) == [type |-> "dict", body |-> Some(b), fields |-> NoPayload]

ListEvent == [type |-> "list", body |-> None, fields |-> NoPayload]

(***************************************************************************)
(* Responses.                                                              *)
(***************************************************************************)
CorsHeaders ==
    ("Content-Type" :> "application/json")
    @@ ("Access-Control-Allow-Origin" :> "*")
    @@ ("Access-Control-Allow-Headers" :> "Content-Type")
    @@ ("Access-Control-Allow-Methods" :> "POST, OPTIONS")

create_response(data, status_code, is_api_gateway) ==
    IF is_api_gateway
    THEN [statusCode |-> status_code, headers |-> CorsHeaders,
          body |-> json_dumps(data)]
    ELSE data

\* {'success': False, 'error': error}
error_data(error) ==
    [success |-> FALSE, data |-> None, error |-> Some(error), message |-> None]

\* faulty variant: the 500 response without the fault's description
internal_error_data_no_message(e) ==
    [success |-> FALSE, data |-> None, error |-> Some("Internal server error"),
     message |-> None]

\* {'success': False, 'error': 'Internal server error', 'message': str(e)}
internal_error_data(e) ==
    [success |-> FALSE, data |-> None, error |-> Some("Internal server error"),
     message |-> Some(e.text)]

\* {'success': True, 'data': project, 'message': 'Project created successfully'}
success_data(project) ==
    [success |-> TRUE, data |-> Some(project), error |-> None,
     message |-> Some("Project created successfully")]

(***************************************************************************)
(* lambda_handler up to the duplicate check (lines 135-186): parsing,      *)
(* extraction and validation touch no shared state.                        *)
(***************************************************************************)
is_api_gateway(e) == e.type = "dict" /\ e.body # None

\* the try block of lines 141-150: the decoded body, or what json.loads raised
parse_body(e) ==
    IF is_api_gateway(e)
    THEN json_loads(e.body[1])
    ELSE Returned([type |-> e.type, fields |-> e.fields])

AttributeError ==
    [type |-> "AttributeError", text |-> "'list' object has no attribute 'get'"]

\* the locals of lines 153-159, for an event whose body is a dict
Body(e) == parse_body(e).value.fields

website_url(e) == Body(e).websiteUrl

category(e) == Get(Body(e), "category", "General")

description(e) == Get(Body(e), "description", "")

scraped_data(e) == Body(e).scrapedData

user_id(e) == Get(Body(e), "userId", "default_user")

\* "not scraped_data": None and the empty dict are both falsy
ScrapedTruthy(o) == o # None /\ DictTruthy(o[1])

\* faulty variant: the two presence checks in the other order
presence_error_scraped_first(url, data) ==
    IF ~ScrapedTruthy(data) THEN Some("scrapedData is required")
    ELSE IF ~CharsTruthy(url) THEN Some("websiteUrl is required")
    ELSE None

\* lines 162-172: the two presence checks, in this order
presence_error(url, data) ==
    IF ~CharsTruthy(url) THEN Some("websiteUrl is required")
    ELSE IF ~ScrapedTruthy(data) THEN Some("scrapedData is required")
    ELSE None

\* lines 162-186: the first failing validation, None when all pass
validation_error(url, data) ==
    IF presence_error(url, data) # None THEN presence_error(url, data)
    ELSE IF ~validate_url(url[1]) THEN Some("Invalid website URL format")
    ELSE IF ~validate_scraped_data(data[1])
    THEN Some("Invalid scraped data structure")
    ELSE None

Respond(data, status_code, gateway) ==
    [returned |-> TRUE, status_code |-> status_code,
     value |-> create_response(data, status_code, gateway)]

Continue == [returned |-> FALSE, status_code |-> 0, value |-> None]

\* lines 135-186: a response, or Continue when the request goes on to the
\* duplicate check
begin_request(e) ==
    LET loaded == parse_body(e)
    IN  IF ~loaded.ok /\ loaded.exc.type = "JSONDecodeError"
        THEN Respond(error_data("Invalid JSON in request body"), 400, TRUE)
        ELSE IF ~loaded.ok
        THEN Respond(internal_error_data(loaded.exc), 500, is_api_gateway(e))
        ELSE IF loaded.value.type # "dict"
        THEN Respond(internal_error_data(AttributeError), 500, is_api_gateway(e))
        ELSE IF validation_error(website_url(e), scraped_data(e)) # None
        THEN Respond(error_data(validation_error(website_url(e), scraped_data(e))[1]),
                     400, is_api_gateway(e))
        ELSE Continue

(***************************************************************************)
(* The table.  An item's primary key is (user_id, project_id): the query   *)
(* names user_id as the partition key, the sort key is the table's schema. *)
(***************************************************************************)
KeyOf(item) == <<item.user_id, item.project_id>>

EmptyTable == <<>>

Items(t) == {t[k] : k \in DOMAIN t}

\* faulty variant: a conditional write that keeps one record per (user_id, website_url)
put_item_if_absent(t, item) ==
    IF \E k \in DOMAIN t : /\ t[k].user_id = item.user_id
                           /\ t[k].website_url = item.website_url
    THEN t
    ELSE (KeyOf(item) :> item) @@ t

\* faulty variant: the write is lost
put_item_lost(t, item) == t

\* table.put_item(Item=item): unconditional write, replaces an item of the
\* same key
put_item(t, item) == (KeyOf(item) :> item) @@ t

\* faulty variant: the query without its FilterExpression
table_query_no_filter(t, uid, url) == {it \in Items(t) : it.user_id = uid}

\* table.query(KeyConditionExpression user_id, FilterExpression website_url)
table_query(t, uid, url) ==
    {it \in Items(t) : it.user_id = uid /\ it.website_url = url}

StoreFaults ==
    {[type |-> "ClientError",
      text |-> "An error occurred (ProvisionedThroughputExceededException)"]}

StoreOk == [ok |-> TRUE, exc |-> NoExc]

StoreRaised(f) == [ok |-> FALSE, exc |-> f]

\* what a store call may do: complete, or raise
StoreOutcomes == {StoreOk} \cup {StoreRaised(f) : f \in StoreFaults}

\* faulty variant: the check fails closed, a fault counts as a duplicate
check_duplicate_project_fail_closed(outcome, items) ==
    IF outcome.ok THEN Cardinality(items) > 0 ELSE TRUE

\* lines 116-131, given what table.query did and the Items it returned
check_duplicate_project(outcome, items) ==
    IF outcome.ok THEN Cardinality(items) > 0 ELSE FALSE

\* generate_project_id: 'project_' and 12 hex digits of a random uuid4; two
\* calls may return the same id
ProjectIds == {"project_0123456789ab", "project_cdef01234567"}

MaxTime == 1

\* datetime.utcnow().isoformat() + 'Z' for the clock readings 1..MaxTime
current_time(now) == <<now, "Z">>

\* lines 96-109
project_item(uid, url, cat, descr, data, project_id, now) ==
    [user_id |-> uid,
     project_id |-> project_id,
     website_url |-> url,
     category |-> cat,
     description |-> descr,
     title |-> Get(data, "title", url),
     health_score |-> calculate_health_score(data),
     last_checked |-> current_time(now),
     status |-> "active",
     created_at |-> current_time(now),
     updated_at |-> current_time(now),
     scraped_data |-> data]

(***************************************************************************)
(* Inputs.                                                                 *)
(***************************************************************************)
UrlA == <<"h", ":", "/", "/", "a">>

UrlB == <<"h", ":", "/", "/", "b">>

\* absent, '', 'a', 'h:a', 'h://', 'h://a', 'h://b'
UrlInputs ==
    {None, Some(<<>>), Some(<<"a">>), Some(<<"h", ":", "a">>),
     Some(<<"h", ":", "/", "/">>), Some(UrlA), Some(UrlB)}

\* every subset of the keys url, title, content, the title empty or not
ScrapedInputs ==
    {[EmptyScraped EXCEPT !.url = u, !.title = t, !.content = c] :
        u \in {None, Some("x")},
        t \in {None, Some(""), Some("T")},
        c \in {None, Some("c")}}

\* a dict with a recognised key and none of the required ones
StatusOnly == [EmptyScraped EXCEPT !.status_code = Some(200)]

GoodScraped ==
    [EmptyScraped EXCEPT !.url = Some("x"), !.title = Some("T"),
                         !.content = Some("c")]

FullPayload ==
    [websiteUrl |-> Some(UrlA), category |-> Some("Blog"),
     description |-> Some("about"), scrapedData |-> Some(GoodScraped),
     userId |-> Some("u1")]

AllPayloads ==
    {[websiteUrl |-> w, category |-> None, description |-> None,
      scrapedData |-> d, userId |-> u] :
        w \in UrlInputs,
        d \in {None, Some(StatusOnly)} \cup {Some(x) : x \in ScrapedInputs},
        u \in {None, Some("u1")}}
    \cup {FullPayload}

AllEvents ==
    {DirectEvent(p) : p \in AllPayloads}
    \cup {GatewayEvent(json_dumps(DictValue(p))) : p \in AllPayloads}
    \cup {GatewayEvent(NoneBody), GatewayEvent(InvalidJsonBody),
          GatewayEvent(json_dumps(ListValue)), ListEvent}

\* the requests of the concurrent runs: two URLs for one user and one of
\* them for another, sent directly; one sent through the gateway; and two
\* requests that end before the duplicate check
ConcurrentPayloads ==
    {[websiteUrl |-> Some(p[1]), category |-> None, description |-> None,
      scrapedData |-> Some(GoodScraped), userId |-> p[2]] :
        p \in {<<UrlA, None>>, <<UrlB, None>>, <<UrlA, Some("u1")>>}}

ConcurrentEvents ==
    {DirectEvent(p) : p \in ConcurrentPayloads}
    \cup {GatewayEvent(json_dumps(DictValue(FullPayload))),
          GatewayEvent(NoneBody), DirectEvent(NoPayload)}

(***************************************************************************)
(* The invocations.                                                        *)
(***************************************************************************)
HandlerInit ==
    /\ table = EmptyTable
    /\ pc = [i \in Slots |-> "idle"]
    /\ event = [i \in Slots |-> None]
    /\ query = [i \in Slots |-> None]
    /\ put = [i \in Slots |-> None]
    /\ status = [i \in Slots |-> None]
    /\ result = [i \in Slots |-> None]
    /\ invocations = 0

Init ==
    /\ HandlerInit
    /\ scraped = EmptyScraped
    /\ score = None

\* the handler returns: a create_response call with this status_code
Finish(i, data, status_code, gateway) ==
    /\ pc' = [pc EXCEPT ![i] = "done"]
    /\ status' = [status EXCEPT ![i] = Some(status_code)]
    /\ result' = [result EXCEPT ![i] = Some(create_response(data, status_code, gateway))]

\* lambda_handler is entered with event e and runs lines 135-186
Invoke(i, e) ==
    /\ pc[i] = "idle"
    /\ invocations' = invocations + 1
    /\ event' = [event EXCEPT ![i] = Some(e)]
    /\ IF begin_request(e).returned
       THEN /\ pc' = [pc EXCEPT ![i] = "done"]
            /\ status' = [status EXCEPT ![i] = Some(begin_request(e).status_code)]
            /\ result' = [result EXCEPT ![i] = Some(begin_request(e).value)]
       ELSE /\ pc' = [pc EXCEPT ![i] = "check"]
            /\ UNCHANGED <<status, result>>
    /\ UNCHANGED <<table, query, put, scraped, score>>

\* lines 188-193: check_duplicate_project, and the 409 when it returns True
CheckDuplicate(i) ==
    /\ pc[i] = "check"
    /\ \E outcome \in StoreOutcomes :
        LET e == event[i][1]
            items == IF outcome.ok
                     THEN table_query(table, user_id(e), website_url(e)[1])
                     ELSE {}
        IN  /\ query' = [query EXCEPT ![i] =
                            Some([ok |-> outcome.ok, exc |-> outcome.exc,
                                  Items |-> items])]
            /\ IF check_duplicate_project(outcome, items)
               THEN Finish(i, error_data("Project already exists for this URL"),
                           409, is_api_gateway(e))
               ELSE /\ pc' = [pc EXCEPT ![i] = "create"]
                    /\ UNCHANGED <<status, result>>
    /\ UNCHANGED <<table, event, put, invocations, scraped, score>>

\* lines 195-203 with create_project (87-114), and the 500 of lines 205-211
\* when put_item raises
CreateProject(i) ==
    /\ pc[i] = "create"
    /\ \E project_id \in ProjectIds, now \in 1..MaxTime, outcome \in StoreOutcomes :
        LET e == event[i][1]
            project == project_item(user_id(e), website_url(e)[1], category(e),
                                    description(e), scraped_data(e)[1],
                                    project_id, now)
        IN  /\ put' = [put EXCEPT ![i] = Some(outcome)]
            /\ IF outcome.ok
               THEN /\ table' = put_item(table, project)
                    /\ Finish(i, success_data(project), 201, is_api_gateway(e))
               ELSE /\ table' = table
                    /\ Finish(i, internal_error_data(outcome.exc), 500,
                              is_api_gateway(e))
    /\ UNCHANGED <<event, query, invocations, scraped, score>>

\* the caller has the response; the execution environment is free for the
\* next event
Return(i) ==
    /\ pc[i] = "done"
    /\ pc' = [pc EXCEPT ![i] = "idle"]
    /\ event' = [event EXCEPT ![i] = None]
    /\ query' = [query EXCEPT ![i] = None]
    /\ put' = [put EXCEPT ![i] = None]
    /\ status' = [status EXCEPT ![i] = None]
    /\ result' = [result EXCEPT ![i] = None]
    /\ UNCHANGED <<table, invocations, scraped, score>>

\* concurrent invocations, each in its own execution environment
Next ==
    \E i \in Slots :
        \/ \E e \in ConcurrentEvents : Invoke(i, e)
        \/ CheckDuplicate(i)
        \/ CreateProject(i)

Spec == Init /\ [][Next]_vars

\* one execution environment that is used again after it returned: one
\* request after the other, every input
MaxSequential == 2

SeqInvoke(e) == invocations < MaxSequential /\ Invoke(1, e)

SeqNext ==
    \/ \E e \in AllEvents : SeqInvoke(e)
    \/ CheckDuplicate(1)
    \/ CreateProject(1)
    \/ Return(1)

SeqSpec == Init /\ [][SeqNext]_vars

(***************************************************************************)
(* The scorer on its own: every combination of the recognised keys, each   *)
(* absent or at a value on either side of the thresholds.                  *)
(***************************************************************************)
FrameworkInputs ==
    {None} \cup
    {Some([react |-> r, vue |-> v, angular |-> a]) :
        r \in {None, Some(FALSE), Some(TRUE)},
        v \in {None, Some(FALSE), Some(TRUE)},
        a \in {None, Some(FALSE), Some(TRUE)}}

ScoreInputs ==
    {[url |-> None, title |-> t, content |-> None, status_code |-> sc,
      content_length |-> cl, description |-> d, links_count |-> lc,
      has_ssl |-> ssl, framework_detection |-> fd] :
        t \in {None, Some(""), Some("T")},
        sc \in {None, Some(200), Some(404)},
        cl \in {None, Some(0), Some(500), Some(501), Some(1000), Some(1001)},
        d \in {None, Some(""), Some("D")},
        lc \in {None, Some(0), Some(5), Some(6), Some(10), Some(11)},
        ssl \in {None, Some(FALSE), Some(TRUE)},
        fd \in FrameworkInputs}

ScoreInit ==
    /\ HandlerInit
    /\ scraped \in ScoreInputs
    /\ score = None

\* health_score = calculate_health_score(scraped_data)
Score ==
    /\ score = None
    /\ score' = Some(calculate_health_score(scraped))
    /\ UNCHANGED <<scraped, handlerVars>>

ScoreNext == Score

ScoreSpec == ScoreInit /\ [][ScoreNext]_vars

(***************************************************************************)
(* Vocabulary of the properties, stated on the request as the caller sent  *)
(* it and on the response as the caller receives it.                       *)
(***************************************************************************)
Done(i) == pc[i] = "done"

Request(i) == event[i][1]

\* the event carries a body field: a gateway-triggered invocation
HasBodyField(e) == e.type = "dict" /\ e.body # None

\* the payload is a JSON object: the event itself, or the decoded body
ObjectPayload(e) ==
    /\ e.type = "dict"
    /\ e.body # None => e.body[1].kind = "str_json" /\ e.body[1].value.type = "dict"

Payload(e) == IF e.body = None THEN e.fields ELSE e.body[1].value.fields

RequiredKeys == {"url", "title", "content"}

ValidUrls == {UrlA, UrlB}

HasValidUrl(e) ==
    Payload(e).websiteUrl # None /\ Payload(e).websiteUrl[1] \in ValidUrls

\* valid websiteUrl, scrapedData with url, title and content
ValidCreate(e) ==
    /\ ObjectPayload(e)
    /\ HasValidUrl(e)
    /\ Payload(e).scrapedData # None
    /\ \A k \in RequiredKeys : Payload(e).scrapedData[1][k] # None

UserOf(e) ==
    IF Payload(e).userId = None THEN "default_user" ELSE Payload(e).userId[1]

UrlOf(e) == Payload(e).websiteUrl[1]

\* the stored records of one (user_id, website_url) pair
PairRecords(t, uid, url) ==
    {k \in DOMAIN t : t[k].user_id = uid /\ t[k].website_url = url}

\* the response payload the caller receives, out of its transport framing
ResponseData(i) ==
    IF HasBodyField(Request(i)) THEN result[i][1].body.value ELSE result[i][1]

\* a failure response with this status and error, framed for the gateway or
\* returned raw
ErrorPayload(msg) ==
    [success |-> FALSE, data |-> None, error |-> Some(msg), message |-> None]

Framed(code, payload) ==
    [statusCode |-> code, headers |-> CorsHeaders,
     body |-> [kind |-> "str_json", value |-> payload]]

AnswersError(i, code, msg) ==
    /\ Done(i)
    /\ status[i] = Some(code)
    /\ result[i] = Some(IF HasBodyField(Request(i))
                        THEN Framed(code, ErrorPayload(msg))
                        ELSE ErrorPayload(msg))

NoStoreAccess(i) == query[i] = None /\ put[i] = None

(***************************************************************************)
(* C8  calculate_health_score returns min(S, 100), S the sum of the        *)
(* factors' points: 20 for status_code 200; 20 for content_length over     *)
(* 1000, else 10 over 500; 15 for a non-empty title; 10 for a non-empty    *)
(* description; 15 for links_count over 10, else 10 over 5; 10 for         *)
(* has_ssl; a flat 10 for any of react, vue, angular; absent keys give 0;  *)
(* the result is an integer in 0..100.                                     *)
(***************************************************************************)
Present(d, k, v) == d[k] = Some(v)

Over(d, k, n) == d[k] # None /\ d[k][1] > n

NonEmpty(d, k) == d[k] # None /\ d[k] # Some("")

AnyFramework(d) ==
    /\ d.framework_detection # None
    /\ \E fw \in {"react", "vue", "angular"} :
          d.framework_detection[1][fw] = Some(TRUE)

Points(cond, n) == IF cond THEN n ELSE 0

FactorSum(d) ==
      Points(Present(d, "status_code", 200), 20)
    + (IF Over(d, "content_length", 1000) THEN 20
       ELSE Points(Over(d, "content_length", 500), 10))
    + Points(NonEmpty(d, "title"), 15)
    + Points(NonEmpty(d, "description"), 10)
    + (IF Over(d, "links_count", 10) THEN 15
       ELSE Points(Over(d, "links_count", 5), 10))
    + Points(Present(d, "has_ssl", TRUE), 10)
    + Points(AnyFramework(d), 10)

HealthScoreIsClampedSum ==
    score # None =>
        /\ score[1] = (IF FactorSum(scraped) < 100 THEN FactorSum(scraped) ELSE 100)
        /\ score[1] \in 0..100

\* every factor satisfied, two frameworks detected: the flat 10 and the cap
HealthScoreWitness ==
    /\ score = Some(100)
    /\ scraped.content_length = Some(1001)
    /\ scraped.links_count = Some(11)
    /\ scraped.framework_detection =
           Some([react |-> Some(TRUE), vue |-> Some(TRUE), angular |-> None])

(***************************************************************************)
(* C2  In every reachable state of the table there is at most one record   *)
(* for any (user_id, website_url) pair.                                    *)
(***************************************************************************)
AtMostOneRecordPerPair ==
    \A k1, k2 \in DOMAIN table :
        (table[k1].user_id = table[k2].user_id
         /\ table[k1].website_url = table[k2].website_url) => k1 = k2

(***************************************************************************)
(* C5  An invocation whose put_item raised is answered 500 with success    *)
(* false, error 'Internal server error' and a non-empty message that is    *)
(* the fault's description; it is not answered 201.                        *)
(***************************************************************************)
InsertFaultIs500 ==
    \A i \in Slots :
        (Done(i) /\ put[i] # None /\ ~put[i][1].ok) =>
            /\ status[i] = Some(500)
            /\ ResponseData(i).success = FALSE
            /\ ResponseData(i).error = Some("Internal server error")
            /\ ResponseData(i).message = Some(put[i][1].exc.text)
            /\ ResponseData(i).message # Some("")
            /\ ResponseData(i).data = None
            /\ HasBodyField(Request(i)) => result[i][1].statusCode = 500

InsertFaultWitness ==
    \E i \in Slots :
        /\ Done(i) /\ put[i] # None /\ ~put[i][1].ok
        /\ HasBodyField(Request(i))
        /\ result[i][1].statusCode = 500

(***************************************************************************)
(* C9  A gateway-triggered event whose body does not JSON-decode, whatever *)
(* the body's value, is answered with the gateway-framed 400 'Invalid JSON *)
(* in request body', never a 500, and no store call is made.               *)
(***************************************************************************)
UndecodableBodyIs400 ==
    \A i \in Slots :
        (Done(i) /\ HasBodyField(Request(i))
         /\ Request(i).body[1].kind # "str_json") =>
            /\ status[i] = Some(400)
            /\ result[i] = Some(Framed(400, ErrorPayload("Invalid JSON in request body")))
            /\ NoStoreAccess(i)

(***************************************************************************)
(* Steps of one invocation, as the properties below name them.             *)
(***************************************************************************)
\* invocation i completes its duplicate check in this step
ChecksNow(i) == pc[i] = "check" /\ pc'[i] # "check"

\* invocation i completes its insert step in this step
InsertsNow(i) == pc[i] = "create" /\ pc'[i] # "create"

\* invocation i is answered in this step
AnsweredNow(i) == status[i] = None /\ status'[i] # None

\* the response payload invocation i receives in this step
AnswerData(i) ==
    IF HasBodyField(Request(i)) THEN result'[i][1].body.value ELSE result'[i][1]

(***************************************************************************)
(* C1  For a valid create request whose duplicate-check query succeeds,    *)
(* the answer is 409 'Project already exists for this URL' if and only if  *)
(* the table holds, at the time of the check, a record with the same       *)
(* user_id and the same website_url; records of other users or URLs cause  *)
(* no 409, a 409 comes from nowhere else, and a 409 adds no record.        *)
(***************************************************************************)
ConflictIffRecordExists ==
    [][\A i \in Slots :
        /\ (ChecksNow(i) /\ query'[i][1].ok /\ ValidCreate(Request(i))) =>
              /\ status'[i] = Some(409)
                    <=> PairRecords(table, UserOf(Request(i)), UrlOf(Request(i))) # {}
              /\ status'[i] = Some(409) =>
                    /\ pc'[i] = "done"
                    /\ result'[i] =
                          Some(IF HasBodyField(Request(i))
                               THEN Framed(409, ErrorPayload("Project already exists for this URL"))
                               ELSE ErrorPayload("Project already exists for this URL"))
                    /\ table' = table
              /\ status'[i] # Some(409) => pc'[i] = "create" /\ status'[i] = None
        /\ (AnsweredNow(i) /\ status'[i] = Some(409)) =>
              ChecksNow(i) /\ query'[i][1].ok
        /\ (status[i] = Some(409) /\ pc'[i] # pc[i]) => table' = table
    ]_vars

\* a gateway request answered 409 by a check that found the pair's record
ConflictWitness ==
    \E i \in Slots :
        /\ Done(i) /\ status[i] = Some(409)
        /\ query[i] # None /\ query[i][1].ok
        /\ ValidCreate(Request(i)) /\ HasBodyField(Request(i))
        /\ Cardinality(PairRecords(table, UserOf(Request(i)), UrlOf(Request(i)))) = 1
        /\ result[i][1].statusCode = 409

(***************************************************************************)
(* C3  The duplicate check and the insert are separate steps: two          *)
(* concurrent invocations for the same (user_id, website_url), with no     *)
(* store fault, can both pass the check before either inserts; both are    *)
(* answered 201 and the table ends with two records for the pair.  As a    *)
(* property of every step: an insert whose fault-free check found nothing  *)
(* is answered 201 and adds its record beside whatever records of the pair *)
(* were inserted since the check.                                          *)
(***************************************************************************)
InsertIgnoresLaterRecords ==
    [][\A i \in Slots :
        (InsertsNow(i) /\ put'[i][1].ok
         /\ query[i][1].ok /\ query[i][1].Items = {}) =>
            LET uid == UserOf(Request(i))
                url == UrlOf(Request(i))
                new == AnswerData(i).data[1]
            IN  /\ status'[i] = Some(201)
                /\ new.user_id = uid /\ new.website_url = url
                /\ PairRecords(table', uid, url)
                      = PairRecords(table, uid, url) \cup {KeyOf(new)}
                /\ \A k \in DOMAIN table : k # KeyOf(new) => table'[k] = table[k]
    ]_vars

\* both invocations passed a fault-free check that found nothing, both are
\* answered 201, and the pair has two records
RaceWitness ==
    \E i, j \in Slots :
        /\ i # j
        /\ Done(i) /\ Done(j)
        /\ ValidCreate(Request(i)) /\ ValidCreate(Request(j))
        /\ UserOf(Request(i)) = UserOf(Request(j))
        /\ UrlOf(Request(i)) = UrlOf(Request(j))
        /\ query[i][1].ok /\ query[i][1].Items = {}
        /\ query[j][1].ok /\ query[j][1].Items = {}
        /\ put[i] = Some(StoreOk) /\ put[j] = Some(StoreOk)
        /\ status[i] = Some(201) /\ status[j] = Some(201)
        /\ Cardinality(PairRecords(table, UserOf(Request(i)), UrlOf(Request(i)))) = 2

(***************************************************************************)
(* C4  The duplicate check fails open: when its query faults the check     *)
(* returns false and the fault goes no further, so the invocation is not   *)
(* answered (neither 409 nor 500) at the check and goes on to the create   *)
(* step; if the insert then succeeds the answer is 201 and the record is   *)
(* written, also when a record of the pair already exists.                 *)
(***************************************************************************)
DuplicateCheckFailsOpen ==
    [][\A i \in Slots :
        /\ (ChecksNow(i) /\ ~query'[i][1].ok) =>
              /\ pc'[i] = "create"
              /\ status'[i] = None /\ result'[i] = None
              /\ table' = table
        /\ (InsertsNow(i) /\ ~query[i][1].ok /\ put'[i][1].ok) =>
              /\ status'[i] = Some(201)
              /\ AnswerData(i).success = TRUE
              /\ KeyOf(AnswerData(i).data[1]) \in DOMAIN table'
              /\ table'[KeyOf(AnswerData(i).data[1])] = AnswerData(i).data[1]
    ]_vars

\* a 201 after a faulted check, the pair's record already in the table
FailOpenWitness ==
    \E i \in Slots :
        /\ Done(i) /\ query[i] # None /\ ~query[i][1].ok /\ put[i] = Some(StoreOk)
        /\ status[i] = Some(201)
        /\ Cardinality(PairRecords(table, UserOf(Request(i)), UrlOf(Request(i)))) = 2

(***************************************************************************)
(* C10  An invocation changes the table at most once, and only by the      *)
(* insert made after presence, URL and shape validation and the duplicate  *)
(* check have passed: a step that answers 400, 409 or 500 leaves the table *)
(* as it was, a step that answers 201 has put exactly the record returned  *)
(* in data, and nothing else changes the table.                            *)
(***************************************************************************)
OnlyTheInsertWrites ==
    [][/\ \A i \in Slots :
            /\ (AnsweredNow(i) /\ status'[i] \in {Some(400), Some(409), Some(500)})
                  => table' = table
            /\ (AnsweredNow(i) /\ status'[i] = Some(201)) =>
                  /\ InsertsNow(i)
                  /\ ValidCreate(Request(i))
                  /\ query[i] # None
                  /\ query[i][1].ok => query[i][1].Items = {}
                  /\ AnswerData(i).data # None
                  /\ DOMAIN table' = DOMAIN table \cup {KeyOf(AnswerData(i).data[1])}
                  /\ \A k \in DOMAIN table' :
                        table'[k] = IF k = KeyOf(AnswerData(i).data[1])
                                    THEN AnswerData(i).data[1]
                                    ELSE table[k]
            /\ (status[i] # None /\ pc'[i] # pc[i]) => table' = table
       /\ table' # table =>
            \E i \in Slots : AnsweredNow(i) /\ status'[i] = Some(201)
    ]_vars

\* a 201 whose record is in the table beside answers that wrote nothing
OnlyTheInsertWritesWitness ==
    \E i, j \in Slots :
        /\ Done(i) /\ status[i] = Some(201)
        /\ ResponseData(i).data[1] \in Items(table)
        /\ Done(j) /\ status[j] = Some(500)
        /\ Cardinality(DOMAIN table) = 1

(***************************************************************************)
(* C6  A payload that lacks websiteUrl is answered 400 'websiteUrl is      *)
(* required'; a payload that has websiteUrl but lacks scrapedData is       *)
(* answered 400 'scrapedData is required'; the websiteUrl check comes      *)
(* first, and both come before URL validation, shape validation and any    *)
(* store call.  Payloads are JSON objects, sent directly or in a body.     *)
(***************************************************************************)
Started(i) == event[i] # None

LacksKey(e, k) == Payload(e)[k] = None

\* the claim as written: "has websiteUrl" is the key being present
PresenceErrorsByKey ==
    \A i \in Slots :
        (Started(i) /\ ObjectPayload(Request(i))) =>
            /\ LacksKey(Request(i), "websiteUrl") =>
                  AnswersError(i, 400, "websiteUrl is required") /\ NoStoreAccess(i)
            /\ (~LacksKey(Request(i), "websiteUrl")
                /\ LacksKey(Request(i), "scrapedData")) =>
                  AnswersError(i, 400, "scrapedData is required") /\ NoStoreAccess(i)

\* amended: the second message needs a websiteUrl that is not the empty
\* string; an empty one is answered like a missing one
EmptyUrl(e) == Payload(e).websiteUrl = Some(<<>>)

PresenceErrors ==
    \A i \in Slots :
        (Started(i) /\ ObjectPayload(Request(i))) =>
            /\ (LacksKey(Request(i), "websiteUrl") \/ EmptyUrl(Request(i))) =>
                  AnswersError(i, 400, "websiteUrl is required") /\ NoStoreAccess(i)
            /\ (~LacksKey(Request(i), "websiteUrl") /\ ~EmptyUrl(Request(i))
                /\ LacksKey(Request(i), "scrapedData")) =>
                  AnswersError(i, 400, "scrapedData is required") /\ NoStoreAccess(i)

\* a gateway request without scrapedData whose websiteUrl is no valid URL:
\* the presence error, not the URL-format error
PresenceErrorsWitness ==
    \E i \in Slots :
        /\ Started(i) /\ HasBodyField(Request(i)) /\ ObjectPayload(Request(i))
        /\ Payload(Request(i)).websiteUrl = Some(<<"a">>)
        /\ LacksKey(Request(i), "scrapedData")
        /\ AnswersError(i, 400, "scrapedData is required")

(***************************************************************************)
(* C7  With a valid websiteUrl, a scrapedData object that lacks at least   *)
(* one of url, title, content is answered 400 'Invalid scraped data        *)
(* structure'; with all three keys present, whatever their values, the     *)
(* shape check passes.                                                     *)
(***************************************************************************)
ScrapedOf(e) == Payload(e).scrapedData[1]

LacksRequired(d) == \E k \in RequiredKeys : d[k] = None

EmptyObject(d) == \A k \in DOMAIN d : d[k] = None

\* the request went past validation: it is at the duplicate check or beyond
PassedValidation(i) ==
    /\ status[i] # Some(400)
    /\ pc[i] \in {"check", "create"} \/ (Done(i) /\ query[i] # None)

\* the claim as written: every such object, the empty one included
ShapeErrorEveryObject ==
    \A i \in Slots :
        (Started(i) /\ ObjectPayload(Request(i)) /\ HasValidUrl(Request(i))
         /\ ~LacksKey(Request(i), "scrapedData")) =>
            /\ LacksRequired(ScrapedOf(Request(i))) =>
                  AnswersError(i, 400, "Invalid scraped data structure")
            /\ ~LacksRequired(ScrapedOf(Request(i))) => PassedValidation(i)

\* amended: every such object with at least one key; the empty object is
\* answered 400 'scrapedData is required'
ShapeErrorNonEmptyObject ==
    \A i \in Slots :
        (Started(i) /\ ObjectPayload(Request(i)) /\ HasValidUrl(Request(i))
         /\ ~LacksKey(Request(i), "scrapedData")) =>
            /\ (LacksRequired(ScrapedOf(Request(i)))
                /\ ~EmptyObject(ScrapedOf(Request(i)))) =>
                  /\ AnswersError(i, 400, "Invalid scraped data structure")
                  /\ NoStoreAccess(i)
            /\ EmptyObject(ScrapedOf(Request(i))) =>
                  AnswersError(i, 400, "scrapedData is required")
            /\ ~LacksRequired(ScrapedOf(Request(i))) => PassedValidation(i)

\* two of the three keys present: rejected; all three with an empty title:
\* accepted
ShapeErrorWitness ==
    \E i \in Slots :
        /\ Started(i) /\ ObjectPayload(Request(i)) /\ HasValidUrl(Request(i))
        /\ ~LacksKey(Request(i), "scrapedData")
        /\ ScrapedOf(Request(i)).title = Some("")
        /\ ScrapedOf(Request(i)).url = None
        /\ ScrapedOf(Request(i)).content # None
        /\ AnswersError(i, 400, "Invalid scraped data structure")
        /\ Cardinality(DOMAIN table) = 1
        /\ \E k \in DOMAIN table : table[k].scraped_data.title = Some("")

====
